---- MODULE Spec2Model ----
(***************************************************************************)
(* A model of the carbon-aware scheduler (CASS-Lite v2): the bounded-retry *)
(* dispatch of JobRunner over the cloud adapters, the scheduling tick of   *)
(* CarbonScheduler behind the run_scheduler HTTP boundary, and the region  *)
(* selection entry points.                                                 *)
(*                                                                         *)
(* Python values are modelled as follows: None is the string "None", a     *)
(* dict is a record, an exception that leaves a function is recorded in    *)
(* the variable that would have held its return value (kind = "raised").   *)
(***************************************************************************)
EXTENDS Integers, Sequences, FiniteSets, TLC

None == "None"
Missing == "<missing>"

(***************************************************************************)
(* Bounds of the model.                                                    *)
(***************************************************************************)
MaxRetriesBound == 3
MaxDelayBound == 2

(***************************************************************************)
(* What one HTTP exchange with an execution endpoint can produce: a        *)
(* response (status, body) or an exception raised by requests.post.        *)
(***************************************************************************)
Statuses == {200, 201, 204, 302, 400, 403, 404, 500, 503}
Bodies == {"json", "text", "empty"}
ExceptionKinds == {"Timeout", "ConnectionError", "RequestException", "Exception"}

Response(s, b) == [kind |-> "response", status |-> s, body |-> b]
Raised(k) == [kind |-> k, status |-> 0, body |-> None]
NoOutcome == [kind |-> None, status |-> 0, body |-> None]

Outcomes ==
    {Response(s, b) : s \in Statuses, b \in Bodies} \cup {Raised(k) : k \in ExceptionKinds}

(***************************************************************************)
(* The data half of a (success, data) pair.  One record shape serves the   *)
(* adapter's result dict, handle_response's response_data and error dicts. *)
(***************************************************************************)
Data(shape, error, code, body, message, provider) ==
    [shape |-> shape, error |-> error, status_code |-> code, body |-> body,
     message |-> message, provider |-> provider]

NoneData == Data(None, None, 0, None, None, None)

Pair(ok, d) == [kind |-> "returned", success |-> ok, data |-> d]
RaisedError(name) == [kind |-> "raised", success |-> FALSE, data |-> Data("exception", name, 0, None, None, None)]
NoReturn == [kind |-> None, success |-> FALSE, data |-> NoneData]

\* None, where a greenest-region dict, a decision, instructions or a result is expected.
NoGreenest ==
    [zone |-> None, carbonIntensity |-> 0, savings |-> 0, totalRegions |-> 0, averageCarbon |-> 0]
NoDecision ==
    [selected_region |-> None, carbon_intensity |-> 0, savings_gco2 |-> 0,
     average_carbon |-> 0, total_regions_checked |-> 0]
NoInstructions == [target_region |-> None, carbon_intensity |-> 0, carbon_savings_gco2 |-> 0]
NoResult == [success |-> FALSE, region |-> None, response |-> NoneData, keys |-> {}]

(***************************************************************************)
(* cloud_adapter.py                                                        *)
(***************************************************************************)

\* str.lower() and str.strip() on the provider names the model enumerates.
lower(s) ==
    CASE s = "GCP" -> "gcp"
      [] s = "Google" -> "google"
      [] s = "AWS" -> "aws"
      [] s = "NONE" -> "none"
      [] s = " aws" -> " aws"
      [] OTHER -> s

strip(s) ==
    CASE s = " aws" -> "aws"
      [] OTHER -> s

\* The factory's table: provider name -> adapter class ("ValueError" when absent).
get_cloud_adapter(provider) ==
    LET p == strip(lower(provider))
    IN  CASE p \in {"gcp", "google", "google-cloud"} -> "GCP"
          [] p \in {"aws", "amazon"} -> "AWS"
          [] p \in {"azure", "microsoft-azure"} -> "Azure"
          [] OTHER -> "ValueError"

\* CloudAdapter._make_request: requests.post, then raise_for_status, which raises
\* HTTPError for 400 <= status < 600.  The value is the exception raised, or None.
make_request_error(o) ==
    IF o.kind # "response" THEN o.kind
    ELSE IF o.status >= 400 /\ o.status < 600 THEN "HTTPError"
    ELSE None

\* "response.json() if response.content else {}": None when it parses (or the body
\* is empty), the exception otherwise.
json_error(o) == IF o.body = "text" THEN "JSONDecodeError" ELSE None

\* GCPAdapter/AWSAdapter/AzureAdapter.deploy_job: every exception of the request
\* and of the body parse is caught and turned into a result with success False.
deploy_job(adapter, o) ==
    LET e1 == make_request_error(o)
        e2 == IF e1 = None THEN json_error(o) ELSE e1
    IN  IF e2 = None
        THEN Pair(TRUE, Data("deploy_result", None, 0,
                             IF o.body = "empty" THEN "{}" ELSE "json",
                             "Job deployed", adapter))
        ELSE Pair(FALSE, Data("deploy_result", None,
                              IF e2 = "HTTPError" THEN o.status ELSE 0,
                              None, e2, adapter))

\* The REGIONS catalog of each adapter class, returned by get_regions.
GCP_REGIONS ==
    {"us-central1", "us-east1", "us-west1", "us-west2", "europe-west1", "europe-west2",
     "europe-west3", "asia-east1", "asia-northeast1", "asia-south1", "asia-southeast1"}

AWS_REGIONS ==
    {"us-east-1", "us-east-2", "us-west-1", "us-west-2", "eu-west-1", "eu-west-2",
     "eu-central-1", "ap-south-1", "ap-southeast-1", "ap-southeast-2", "ap-northeast-1"}

AZURE_REGIONS ==
    {"eastus", "eastus2", "westus", "westus2", "centralus", "northeurope", "westeurope",
     "uksouth", "southeastasia", "eastasia", "australiaeast", "centralindia"}

get_regions(adapter) ==
    CASE adapter = "GCP" -> GCP_REGIONS
      [] adapter = "AWS" -> AWS_REGIONS
      [] adapter = "Azure" -> AZURE_REGIONS
      [] OTHER -> {}

\* deploy_job's url: config['worker_url'] when there is one, whatever the region;
\* else a URL formatted from the region (and from fixed names of the adapter).
deploy_url(adapter, url, reg) ==
    IF url \notin {None, ""} THEN <<"worker_url", url>> ELSE <<adapter, reg>>

\* The default of _make_request's timeout parameter.
DefaultRequestTimeout == 30

(***************************************************************************)
(* job_runner.py                                                           *)
(***************************************************************************)

\* The timeout of the requests.post of one attempt: deploy_job calls
\* self._make_request(url, payload), which leaves the timeout at its default; the
\* direct loop passes timeout=self.timeout.
request_timeout(adapter, tmo) ==
    IF adapter # None THEN DefaultRequestTimeout ELSE tmo

\* The URL of one attempt's request: the adapter's (JobRunner.__init__ hands the
\* configuration's worker_url on to it), or get_function_url's placeholder for
\* the region on the direct path.
request_url(adapter, url, reg) ==
    IF adapter # None THEN deploy_url(adapter, url, reg) ELSE <<"placeholder", reg>>

\* JobRunner.__init__, lines 64-86: the provider and adapter fields for a
\* configuration whose cloud_provider entry is cfg (Missing: no entry).
init_cloud_provider(cfg) ==
    LET given == IF cfg = Missing THEN "gcp" ELSE cfg
    IN  IF given \notin {None, ""} /\ lower(given) # "none"
        THEN IF get_cloud_adapter(lower(given)) = "ValueError" THEN None ELSE lower(given)
        ELSE None

init_cloud_adapter(cfg) ==
    LET given == IF cfg = Missing THEN "gcp" ELSE cfg
    IN  IF given \notin {None, ""} /\ lower(given) # "none"
        THEN IF get_cloud_adapter(lower(given)) = "ValueError" THEN None
             ELSE get_cloud_adapter(lower(given))
        ELSE None

\* The exception that leaves JobRunner.__init__ (None: it returns).  The
\* ValueError of get_cloud_adapter is raised inside "try", and lines 79-83 catch
\* every Exception.
init_error(cfg) ==
    LET given == IF cfg = Missing THEN "gcp" ELSE cfg
        raised == IF given \notin {None, ""} /\ lower(given) # "none"
                     /\ get_cloud_adapter(lower(given)) = "ValueError"
                  THEN "ValueError" ELSE None
        caught == raised # None
    IN  IF caught THEN None ELSE raised

\* handle_response: the body is parsed (a raw_response dict stands in for a body
\* that does not parse), then the status code alone decides.
response_data(o) ==
    CASE o.body = "json" -> "json"
      [] o.body = "text" -> "raw_response"
      [] OTHER -> "raw_response_empty"

handle_response(o) ==
    CASE o.status = 200 -> Pair(TRUE, Data("response_data", None, 0, response_data(o), None, None))
      [] o.status = 404 -> Pair(FALSE, Data("error", "not_found", 404, response_data(o), None, None))
      [] o.status = 403 -> Pair(FALSE, Data("error", "forbidden", 403, response_data(o), None, None))
      [] o.status = 500 -> Pair(FALSE, Data("error", "server_error", 500, response_data(o), None, None))
      [] o.status = 503 -> Pair(FALSE, Data("error", "unavailable", 503, response_data(o), None, None))
      [] OTHER -> Pair(FALSE, Data("error", "unexpected_status", o.status, response_data(o), None, None))

\* The error dict each except clause of the direct-HTTP loop returns on the last attempt.
exception_data(k) ==
    CASE k = "Timeout" -> Data("error", "timeout", 0, None, "Request timed out", None)
      [] k = "ConnectionError" -> Data("error", "connection_error", 0, None, k, None)
      [] k = "RequestException" -> Data("error", "request_exception", 0, None, k, None)
      [] OTHER -> Data("error", "unexpected", 0, None, k, None)

\* One pass of a retry loop body, lines 171-199 (adapter) and 223-294 (direct):
\* the classified result of the exchange, and whether the loop body returns at once
\* whatever the attempt number ("except Exception" of the direct loop).
attempt_result(adapter, o) ==
    IF adapter # None THEN deploy_job(adapter, o)
    ELSE IF o.kind = "response" THEN handle_response(o)
    ELSE Pair(FALSE, exception_data(o.kind))

\* A variant that gives up at once on a 404 answer.
returns_without_retry_on_not_found(adapter, o) ==
    (adapter = None /\ o.kind = "Exception") \/ (o.kind = "response" /\ o.status = 404)

returns_without_retry(adapter, o) ==
    adapter = None /\ o.kind = "Exception"

\* A variant with one retry too many.
retries_left_inclusive(att, maxr) == att <= maxr

\* "if attempt < self.max_retries": sleep and go round again, else return.
retries_left(att, maxr) == att < maxr

\* A variant whose delay grows with the attempt number.
sleep_seconds_growing(delay, att) == delay * att

\* The argument of time.sleep between two attempts.
sleep_seconds(delay, att) == delay

\* A variant that drops the error of the last attempt.
exhausted_return_without_error(r) == Pair(FALSE, NoneData)

\* What the loop returns when it gives up after a failed attempt.
exhausted_return(r) == Pair(FALSE, r.data)

(***************************************************************************)
(* carbon_fetcher.py: the decision step.                                   *)
(***************************************************************************)

\* CarbonFetcher.regions, in dict order.
Regions == <<"IN", "FI", "DE", "JP", "AU-NSW", "BR-CS">>
RegionSet == {Regions[i] : i \in 1..Len(Regions)}

\* What fetch_carbon_intensity gives for a zone: None (the fetch failed), a body
\* without a carbonIntensity key, or the carbonIntensity it carries.
FetchFailed == [kind |-> None, carbonIntensity |-> 0]
NoKey == [kind |-> "no carbonIntensity", carbonIntensity |-> 0]
Reading(v) == [kind |-> "data", carbonIntensity |-> v]
CarbonValues == {0, 40}
ReadingValues == {FetchFailed, NoKey} \cup {Reading(v) : v \in CarbonValues}
AllReadings == [RegionSet -> ReadingValues]

\* A variant that truncates.
round_down(n, d) == n \div d

\* round(n / d) for d > 0: Python rounds halves to the even neighbour.
round(n, d) ==
    LET q == n \div d
        r == n % d
    IN  IF 2 * r < d THEN q
        ELSE IF 2 * r > d THEN q + 1
        ELSE IF q % 2 = 0 THEN q ELSE q + 1

RECURSIVE sum_over(_, _, _)
sum_over(f, seq, keep) ==
    IF seq = <<>> THEN 0
    ELSE (IF Head(seq) \in keep THEN f[Head(seq)].carbonIntensity ELSE 0)
         + sum_over(f, Tail(seq), keep)

\* "data is not None and 'carbonIntensity' in data"
valid_regions(all_data) == {z \in RegionSet : all_data[z].kind = "data"}

\* A variant that takes the first key of greatest value.
dirtiest_zone(all_data) ==
    LET valid == valid_regions(all_data)
        pos == CHOOSE i \in 1..Len(Regions) :
                  /\ Regions[i] \in valid
                  /\ \A j \in 1..Len(Regions) : Regions[j] \in valid =>
                        \/ all_data[Regions[i]].carbonIntensity > all_data[Regions[j]].carbonIntensity
                        \/ /\ all_data[Regions[i]].carbonIntensity = all_data[Regions[j]].carbonIntensity
                           /\ i <= j
    IN  Regions[pos]

\* min(valid_regions.keys(), key=...): the first key, in dict order, of least value.
greenest_zone(all_data) ==
    LET valid == valid_regions(all_data)
        pos == CHOOSE i \in 1..Len(Regions) :
                  /\ Regions[i] \in valid
                  /\ \A j \in 1..Len(Regions) : Regions[j] \in valid =>
                        \/ all_data[Regions[i]].carbonIntensity < all_data[Regions[j]].carbonIntensity
                        \/ /\ all_data[Regions[i]].carbonIntensity = all_data[Regions[j]].carbonIntensity
                           /\ i <= j
    IN  Regions[pos]

\* get_greenest_region: None when no region has a valid reading; ZeroDivisionError
\* from the recommendation line, "savings/avg_carbon", when the mean is 0.
get_greenest_region(all_data) ==
    LET valid == valid_regions(all_data)
        n == Cardinality(valid)
        total == sum_over(all_data, Regions, valid)
        zone == greenest_zone(all_data)
    IN  IF valid = {} THEN [kind |-> "returned", value |-> NoGreenest]
        ELSE IF total = 0 THEN [kind |-> "raised", value |-> NoGreenest]
        ELSE [kind |-> "returned",
              value |-> [zone |-> zone,
                         carbonIntensity |-> all_data[zone].carbonIntensity,
                         savings |-> round(total - n * all_data[zone].carbonIntensity, n),
                         totalRegions |-> n,
                         averageCarbon |-> round(total, n)]]

(***************************************************************************)
(* carbon_fetcher.py: the snapshot fetch and its cache.                    *)
(***************************************************************************)

\* What requests.get can produce: a response (status; whether response.json()
\* parses; the parsed body) or an exception.
ApiStatuses == {200, 400, 401, 429}
ApiExceptionKinds == {"Timeout", "ConnectionError", "Exception"}
ApiResponse(s, parses, d) == [kind |-> "response", status |-> s, parses |-> parses, data |-> d]
ApiRaised(k) == [kind |-> k, status |-> 0, parses |-> FALSE, data |-> FetchFailed]
NoApiOutcome == [kind |-> None, status |-> 0, parses |-> FALSE, data |-> FetchFailed]
ApiOutcomes ==
    {ApiResponse(200, TRUE, Reading(v)) : v \in CarbonValues}
    \cup {ApiResponse(s, TRUE, Reading(0)) : s \in ApiStatuses \ {200}}
    \cup {ApiResponse(200, FALSE, FetchFailed)}
    \cup {ApiRaised(k) : k \in ApiExceptionKinds}

\* A cache slot: (data, timestamp), or no entry for the zone.
NoEntry == [present |-> FALSE, data |-> FetchFailed, timestamp |-> 0]
Entry(d, t) == [present |-> TRUE, data |-> d, timestamp |-> t]

\* A variant that still serves an entry exactly cache_ttl seconds old.
cache_fresh_inclusive(e, t, ttl) == t - e.timestamp <= ttl

\* "time.time() - timestamp < self.cache_ttl"
cache_fresh(e, t, ttl) == t - e.timestamp < ttl

\* "if use_cache and zone in self.cache", then the freshness test.
cache_hit(c, zone, use_cache, t, ttl) ==
    use_cache /\ c[zone].present /\ cache_fresh(c[zone], t, ttl)

\* A variant that caches whatever body an answer carries.
api_stores_any_answer(o) == o.kind = "response" /\ o.parses

\* "if response.status_code == 200: data = response.json(); self.cache[zone] = ..."
api_stores(o) == o.kind = "response" /\ o.status = 200 /\ o.parses

\* The exception that leaves fetch_carbon_intensity (None: it returns): a
\* JSONDecodeError of response.json() and everything requests.get raises is
\* caught by one of the three except clauses, the last being "except Exception".
fetch_error(o) ==
    LET raised == IF o.kind # "response" THEN o.kind
                  ELSE IF o.status = 200 /\ ~o.parses THEN "JSONDecodeError"
                  ELSE None
        caught == raised # None
    IN  IF caught THEN None ELSE raised

\* fetch_carbon_intensity: the value returned, the cache afterwards and the
\* number of API calls made, when the API would do o.
fetch_carbon_intensity(c, zone, use_cache, t, ttl, o) ==
    IF cache_hit(c, zone, use_cache, t, ttl)
    THEN [ret |-> c[zone].data, cache |-> c, api_calls |-> 0, error |-> None]
    ELSE [ret |-> IF o.kind = "response" /\ o.status = 200 /\ o.parses THEN o.data ELSE FetchFailed,
          cache |-> IF api_stores(o) THEN [c EXCEPT ![zone] = Entry(o.data, t)] ELSE c,
          api_calls |-> 1,
          error |-> fetch_error(o)]

\* clear_cache
clear_cache(c) == [z \in DOMAIN c |-> NoEntry]

(***************************************************************************)
(* scheduler/main.py, firestore_logger.py and the run_scheduler function.  *)
(***************************************************************************)

\* make_decision: None without a greenest region; else the decision record, whose
\* savings_percent divides by averageCarbon.
make_decision(all_data) ==
    LET g == get_greenest_region(all_data)
    IN  IF g.kind = "raised" THEN [kind |-> "raised", value |-> NoDecision]
        ELSE IF g.value = NoGreenest THEN [kind |-> "returned", value |-> NoDecision]
        ELSE IF g.value.averageCarbon = 0 THEN [kind |-> "raised", value |-> NoDecision]
        ELSE [kind |-> "returned",
              value |-> [selected_region |-> g.value.zone,
                         carbon_intensity |-> g.value.carbonIntensity,
                         savings_gco2 |-> g.value.savings,
                         average_carbon |-> g.value.averageCarbon,
                         total_regions_checked |-> g.value.totalRegions]]

\* prepare_job_instructions
prepare_job_instructions(decision) ==
    [target_region |-> decision.selected_region,
     carbon_intensity |-> decision.carbon_intensity,
     carbon_savings_gco2 |-> decision.savings_gco2]

\* A variant that leaves the response out of the result.
execute_job_result_without_response(instr, r) ==
    [success |-> r.success, region |-> instr.target_region, response |-> NoneData,
     keys |-> {"success", "region", "response", "execution_time_ms", "timestamp", "metadata"}]

\* execute_job's result dict, built from what trigger_function returned; keys is
\* the set of keys the dict literal of lines 420-427 has.
execute_job_result(instr, r) ==
    [success |-> r.success, region |-> instr.target_region, response |-> r.data,
     keys |-> {"success", "region", "response", "execution_time_ms", "timestamp", "metadata"}]

\* run_scheduling_cycle, lines 310-316: the value returned once the job has been
\* executed and the decision logged.
cycle_return_after_log(result) == "True"

\* A variant that answers 200 whatever the cycle returned.
response_status_always_ok(success, decision) == 200

\* run_scheduler, line 70: "if success and scheduler.last_decision" answers 200.
response_status(success, decision) ==
    IF success = "True" /\ decision # NoDecision THEN 200 ELSE 500

\* A variant that lets the exception of a failed add through.
log_decision_raises_on_failed_add(add_ok) == ~add_ok

\* log_decision: whether the exception of a failed Firestore add leaves the method.
log_decision_raises(add_ok) == FALSE

\* The tick's own configurations of the runner: CarbonScheduler builds
\* JobRunner(self.config, max_retries=3, retry_delay=2, timeout=30).
SchedulerMaxRetries == 3
SchedulerRetryDelay == 2
SchedulerTimeout == 30
TickProviderConfigs == {Missing, None, "gcp", "AWS", "azure", "oracle"}

(***************************************************************************)
(* predictive_scheduler.py and dashboard/predictor.py: multi-objective     *)
(* selection.  Scores are rationals; they are kept exact as integers over  *)
(* a denominator common to all candidates of one call.                     *)
(* The code computes in binary floating point: two scores that are equal   *)
(* here may differ there in the last bit, and the other way round.         *)
(***************************************************************************)

\* REGION_LATENCY (ms) and REGION_COSTS (USD per vCPU-hour, times 10000).
REGION_LATENCY ==
    [z \in RegionSet |->
        CASE z = "IN" -> 10 [] z = "FI" -> 180 [] z = "DE" -> 150
          [] z = "JP" -> 90 [] z = "AU-NSW" -> 140 [] OTHER -> 350]

REGION_COSTS ==
    [z \in RegionSet |->
        CASE z = "IN" -> 476 [] z = "FI" -> 570 [] z = "DE" -> 475
          [] z = "JP" -> 560 [] z = "AU-NSW" -> 595 [] OTHER -> 450]

\* The values fetch_carbon_data substitutes for a region whose request failed.
DEFAULT_CARBON ==
    [z \in RegionSet |->
        CASE z = "IN" -> 508 [] z = "FI" -> 40 [] z = "DE" -> 265
          [] z = "JP" -> 502 [] z = "AU-NSW" -> 327 [] OTHER -> 161]

\* The regions of a set, in the order of Regions (dict order).
RECURSIVE in_order(_, _)
in_order(seq, keep) ==
    IF seq = <<>> THEN <<>>
    ELSE (IF Head(seq) \in keep THEN <<Head(seq)>> ELSE <<>>) \o in_order(Tail(seq), keep)

Min(S) == CHOOSE x \in S : \A y \in S : x <= y
Max(S) == CHOOSE x \in S : \A y \in S : x >= y

\* normalize_value as a fraction <<numerator, denominator>>: 1/2 when max = min.
normalize_value(value, min_val, max_val) ==
    IF max_val = min_val THEN <<1, 2>> ELSE <<value - min_val, max_val - min_val>>

\* A variant that uses the weights as passed, without dividing them by their
\* total (in the same representation: one more factor of the total).
score_with_raw_weights(c, all_carbon, all_latency, all_costs, w) ==
    LET nc == normalize_value(c.carbon_intensity, Min(all_carbon), Max(all_carbon))
        nl == normalize_value(c.latency, Min(all_latency), Max(all_latency))
        nk == normalize_value(c.cost, Min(all_costs), Max(all_costs))
    IN  (w[1] + w[2] + w[3]) *
        (w[1] * nc[1] * nl[2] * nk[2] + w[2] * nl[1] * nc[2] * nk[2] + w[3] * nk[1] * nc[2] * nl[2])

\* calculate_multi_objective_score / calculate_score, times the product of the
\* three normalisation denominators (the same for every candidate of a call) and
\* times the weight total the weights were divided by.
calculate_multi_objective_score(c, all_carbon, all_latency, all_costs, w) ==
    LET nc == normalize_value(c.carbon_intensity, Min(all_carbon), Max(all_carbon))
        nl == normalize_value(c.latency, Min(all_latency), Max(all_latency))
        nk == normalize_value(c.cost, Min(all_costs), Max(all_costs))
    IN  w[1] * nc[1] * nl[2] * nk[2] + w[2] * nl[1] * nc[2] * nk[2] + w[3] * nk[1] * nc[2] * nl[2]

\* A variant that takes the last candidate of least score.
last_of_least_score(cands, score) ==
    CHOOSE i \in 1..Len(cands) :
        \A j \in 1..Len(cands) :
            score[i] < score[j] \/ (score[i] = score[j] /\ i >= j)

\* candidates.sort(key=score); candidates[0]: the sort is stable, so the first
\* candidate of least score.
first_of_least_score(cands, score) ==
    LET pos == CHOOSE i \in 1..Len(cands) :
                  \A j \in 1..Len(cands) :
                      score[i] < score[j] \/ (score[i] = score[j] /\ i <= j)
    IN  pos

\* predicted_intensities.get(zone) when the region has no forecast.
NoPrediction == [kind |-> "None", carbonIntensity |-> 0]

NoSelection ==
    [kind |-> "returned", success |-> FALSE, error |-> None, region |-> None,
     carbon_intensity |-> 0, score |-> 0, savings_num |-> 0, savings_den |-> 1,
     candidates |-> <<>>]

\* The part both select_optimal_region methods share: candidates, scores, the
\* optimum and the savings, "np.mean(all_carbon) - optimal carbon" as a fraction.
select_from(keys, carbon, w) ==
    LET order == in_order(Regions, keys)
        cands == [i \in 1..Len(order) |->
                    [region |-> order[i], carbon_intensity |-> carbon[order[i]],
                     latency |-> REGION_LATENCY[order[i]], cost |-> REGION_COSTS[order[i]]]]
        all_carbon == {cands[i].carbon_intensity : i \in 1..Len(order)}
        all_latency == {cands[i].latency : i \in 1..Len(order)}
        all_costs == {cands[i].cost : i \in 1..Len(order)}
        score == [i \in 1..Len(order) |->
                    calculate_multi_objective_score(cands[i], all_carbon, all_latency, all_costs, w)]
        best == first_of_least_score(cands, score)
        total == sum_over([z \in RegionSet |-> [carbonIntensity |-> carbon[z]]], Regions, keys)
    IN  [kind |-> "returned", success |-> TRUE, error |-> None,
         region |-> cands[best].region,
         carbon_intensity |-> cands[best].carbon_intensity,
         score |-> score[best],
         savings_num |-> total - Len(order) * cands[best].carbon_intensity,
         savings_den |-> Len(order),
         candidates |-> [i \in 1..Len(order) |-> [region |-> cands[i].region, score |-> score[i]]]]

\* PredictiveScheduler.select_optimal_region: the weights are divided by their
\* total first (ZeroDivisionError when it is 0); a region counts when its data
\* carries a carbon intensity; the forecast, when there is one, replaces it.
predictive_select_optimal_region(all_data, w, predicted) ==
    LET keys == valid_regions(all_data)
        carbon == [z \in RegionSet |->
                      IF predicted[z] # NoPrediction THEN predicted[z].carbonIntensity
                      ELSE all_data[z].carbonIntensity]
    IN  IF w[1] + w[2] + w[3] = 0
        THEN [NoSelection EXCEPT !.kind = "raised", !.error = "ZeroDivisionError"]
        ELSE IF keys = {}
        THEN [NoSelection EXCEPT !.error = "Failed to fetch carbon data"]
        ELSE select_from(keys, carbon, w)

\* SimplePredictiveScheduler.fetch_carbon_data: a region whose request fails gets
\* its default, a body without carbonIntensity counts as 0.
fetch_carbon_data(all_data) ==
    [z \in RegionSet |->
        IF all_data[z] = FetchFailed THEN DEFAULT_CARBON[z] ELSE all_data[z].carbonIntensity]

\* SimplePredictiveScheduler.select_optimal_region: the weights are divided by
\* their total only when it is positive.
simple_select_optimal_region(all_data, w) ==
    LET carbon_data == fetch_carbon_data(all_data)
    IN  IF DOMAIN carbon_data = {}
        THEN [NoSelection EXCEPT !.error = "Failed to fetch carbon data"]
        ELSE select_from(DOMAIN carbon_data, carbon_data, w)

\* generate_pareto_frontier: one solution per region with carbon data, in dict
\* order.
solutions_of(keys, carbon) ==
    LET order == in_order(Regions, keys)
    IN  [i \in 1..Len(order) |->
            [region |-> order[i], carbon |-> carbon[order[i]],
             latency |-> REGION_LATENCY[order[i]], cost |-> REGION_COSTS[order[i]]]]

\* A variant without the test for a strict improvement.
dominates_or_equals(sol_j, sol_i, objective1, objective2) ==
    /\ sol_j[objective1] <= sol_i[objective1]
    /\ sol_j[objective2] <= sol_i[objective2]

\* "obj1_better and obj2_better and at_least_one_strictly_better": sol_j
\* dominates sol_i.
dominates(sol_j, sol_i, objective1, objective2) ==
    /\ sol_j[objective1] <= sol_i[objective1]
    /\ sol_j[objective2] <= sol_i[objective2]
    /\ (sol_j[objective1] < sol_i[objective1] \/ sol_j[objective2] < sol_i[objective2])

\* list.sort(key=lambda x: x[objective]): a stable sort.
RECURSIVE sort_by(_, _)
sort_by(seq, objective) ==
    IF seq = <<>> THEN <<>>
    ELSE LET i == CHOOSE i \in 1..Len(seq) :
                     \A j \in 1..Len(seq) :
                         \/ seq[i][objective] < seq[j][objective]
                         \/ (seq[i][objective] = seq[j][objective] /\ i <= j)
         IN  <<seq[i]>> \o sort_by(SubSeq(seq, 1, i - 1) \o SubSeq(seq, i + 1, Len(seq)), objective)

\* The loop over the solutions: those no other solution dominates, then the sort
\* by the first objective.  (The solutions differ in their region, so "another
\* index" is "another solution".)
pareto_frontier(solutions, objective1, objective2) ==
    sort_by(SelectSeq(solutions,
                      LAMBDA sol_i :
                          ~\E j \in 1..Len(solutions) :
                              /\ solutions[j] # sol_i
                              /\ dominates(solutions[j], sol_i, objective1, objective2)),
            objective1)

\* PredictiveScheduler.generate_pareto_frontier: the regions whose data carries a
\* carbon intensity; [] when there is none.
predictive_generate_pareto_frontier(all_data, objective1, objective2) ==
    LET keys == valid_regions(all_data)
        carbon == [z \in RegionSet |-> all_data[z].carbonIntensity]
    IN  IF keys = {} THEN <<>>
        ELSE pareto_frontier(solutions_of(keys, carbon), objective1, objective2)

\* SimplePredictiveScheduler.generate_pareto_frontier, over fetch_carbon_data.
simple_generate_pareto_frontier(all_data, objective1, objective2) ==
    LET carbon_data == fetch_carbon_data(all_data)
    IN  IF DOMAIN carbon_data = {} THEN <<>>
        ELSE pareto_frontier(solutions_of(DOMAIN carbon_data, carbon_data), objective1, objective2)

Objectives == {"carbon", "latency", "cost"}

\* The inputs enumerated for the selection entry points.
MaxWeight == 2
MaxScale == 2
WeightTriples == {<<a, b, c>> : a \in 0..MaxWeight, b \in 0..MaxWeight, c \in 0..MaxWeight}
DefaultWeights == <<5, 3, 2>>
NoForecast == [z \in RegionSet |-> NoPrediction]
Forecasts ==
    {NoForecast} \cup
    {[z \in RegionSet |-> IF z = "IN" THEN Reading(v) ELSE NoPrediction] : v \in CarbonValues}
SelectReadings ==
    {[z \in RegionSet |-> IF z \in {"IN", "FI", "DE"} THEN near[z] ELSE far] :
        near \in [{"IN", "FI", "DE"} -> ReadingValues], far \in {FetchFailed, Reading(40)}}

\* What the snapshot fetch can give to a later call when it gave all_data to an
\* earlier one: the same readings, or another reading for IN.
LaterReadings(all_data) ==
    {all_data} \cup {[all_data EXCEPT !["IN"] = r] : r \in {FetchFailed, Reading(0)}}

VARIABLES
    cfg_provider,     \* the configuration's cloud_provider entry
    cloud_provider,   \* JobRunner.cloud_provider
    cloud_adapter,    \* JobRunner.cloud_adapter (its provider, or None)
    max_retries,      \* JobRunner.max_retries
    retry_delay,      \* JobRunner.retry_delay
    entry,            \* the call under way: "trigger_function", "handle_response", ...
    pc,               \* position in trigger_function
    attempt,          \* the loop variable of the retry loop
    ret,              \* what trigger_function (or handle_response) returned or raised
    requests,         \* history: requests sent to the endpoint in this sequence
    sleeps,           \* history: the durations slept, in order
    last,             \* history: the outcome of the latest request
    mixed,            \* history: two requests of this sequence had different outcomes
    succeeded,        \* history: a request of this sequence was classified a success
    timeout,          \* JobRunner.timeout
    region,           \* the region trigger_function was called with
    request_timeouts, \* history: the timeouts the requests of this sequence were sent with
    worker_url,       \* the configuration's worker_url entry (None: no entry)
    request_urls      \* history: the URLs the requests of this sequence were sent to

VARIABLES
    tpc,              \* position in run_scheduler / run_scheduling_cycle
    connected,        \* FirestoreLogger.connected (and a client is held)
    last_decision,    \* CarbonScheduler.last_decision
    instructions,     \* the instructions prepared from the decision
    execution_result, \* what execute_job returned (or raised)
    log_ret,          \* what log_decision returned
    log_docs,         \* history: the documents added to the Firestore collection
    log_calls,        \* history: calls of log_decision, each with its arguments
    cycle_ret,        \* what run_scheduling_cycle returned
    http_status       \* the status run_scheduler answered with (0: not yet)

dvars == <<cfg_provider, cloud_provider, cloud_adapter, max_retries, retry_delay,
           entry, pc, attempt, ret, requests, sleeps, last, mixed, succeeded,
           timeout, region, request_timeouts, worker_url, request_urls>>

tvars == <<tpc, connected, last_decision, instructions, execution_result,
           log_ret, log_docs, log_calls, cycle_ret, http_status>>

VARIABLES
    spc,              \* "idle", then "done" once a selection entry point has returned
    sel_entry,        \* the selection entry point called
    sel_data,         \* its input: what the snapshot fetch gave for each region
    sel_weights,      \* its input: <<w_carbon, w_latency, w_cost>> as passed
    sel_predicted,    \* its input: what predict_carbon_intensity gives for each region
    sel_result,       \* what it returned or raised
    sel_objectives,   \* generate_pareto_frontier's input: <<objective1, objective2>>
    sel_frontier,     \* the list generate_pareto_frontier returned
    sel_data_again,   \* what the snapshot fetch gave to a second call, same arguments
    sel_frontier_again \* the list that second call returned

svars == <<spc, sel_entry, sel_data, sel_weights, sel_predicted, sel_result,
           sel_objectives, sel_frontier, sel_data_again, sel_frontier_again>>

VARIABLES
    cache,            \* CarbonFetcher.cache: zone -> (data, timestamp), or no entry
    cache_ttl,        \* CarbonFetcher.cache_ttl
    now,              \* time.time(), in seconds
    f_op,             \* the method of CarbonFetcher called last
    f_zone,           \* the latest fetch_carbon_intensity: its zone,
    f_use_cache,      \*   its use_cache,
    f_time,           \*   the time of the call,
    f_outcome,        \*   what the API did (NoApiOutcome: it was not contacted),
    f_api_calls,      \*   the number of requests.get calls it made,
    f_ret,            \*   and what it returned or raised
    cache_before,     \* history: the cache as the latest call found it
    stored            \* history: per zone, the reading of the latest successful API
                      \* fetch since the cache was last cleared, and its time

fvars == <<cache, cache_ttl, now, f_op, f_zone, f_use_cache, f_time, f_outcome,
           f_api_calls, f_ret, cache_before, stored>>

vars == <<dvars, tvars, svars, fvars>>

\* The regions and timeouts enumerated for a dispatch sequence on its own: a
\* carbon zone code, as the tick passes, and a region of the GCP catalog.
DispatchRegions == {"FI", "us-east1"}
WorkerUrls == {None, "https://worker.example/execute"}
Timeouts == {5, 30}

ProviderConfigs ==
    {Missing, None, "", "none", "NONE", "gcp", "GCP", "Google", "aws", " aws", "azure", "oracle"}

\* No tick is under way.
TickIdle ==
    /\ tpc = "none"
    /\ connected = FALSE
    /\ last_decision = NoDecision
    /\ instructions = NoInstructions
    /\ execution_result = NoResult
    /\ log_ret = None
    /\ log_docs = <<>>
    /\ log_calls = <<>>
    /\ cycle_ret = None
    /\ http_status = 0

\* No selection entry point has been called.
SelectIdle ==
    /\ spc = "idle"
    /\ sel_entry = None
    /\ sel_data = [z \in RegionSet |-> FetchFailed]
    /\ sel_weights = <<0, 0, 0>>
    /\ sel_predicted = NoForecast
    /\ sel_result = NoSelection
    /\ sel_objectives = <<None, None>>
    /\ sel_frontier = <<>>
    /\ sel_data_again = [z \in RegionSet |-> FetchFailed]
    /\ sel_frontier_again = <<>>

\* The zones, cache lifetimes and clock range enumerated for the fetcher.
FetchZones == {"IN", "FI"}
MaxTime == 3
CacheTtls == {1, 2}

\* The state after CarbonFetcher(api_key, cache_ttl=ttl).
FetcherInit(ttl) ==
    /\ cache = [z \in FetchZones |-> NoEntry]
    /\ cache_ttl = ttl
    /\ now = 0
    /\ f_op = None
    /\ f_zone = None
    /\ f_use_cache = FALSE
    /\ f_time = 0
    /\ f_outcome = NoApiOutcome
    /\ f_api_calls = 0
    /\ f_ret = [kind |-> None, value |-> FetchFailed]
    /\ cache_before = [z \in FetchZones |-> NoEntry]
    /\ stored = [z \in FetchZones |-> NoEntry]

\* CarbonFetcher's default cache_ttl.
DefaultCacheTtl == 300

FetcherIdle == FetcherInit(DefaultCacheTtl)

\* The state after JobRunner(config, max_retries, retry_delay, timeout) for the
\* given inputs.
JobRunnerInit(cfg, maxr, delay, tmo) ==
    /\ init_error(cfg) = None
    /\ cfg_provider = cfg
    /\ cloud_provider = init_cloud_provider(cfg)
    /\ cloud_adapter = init_cloud_adapter(cfg)
    /\ max_retries = maxr
    /\ retry_delay = delay
    /\ timeout = tmo
    /\ request_timeouts = {}
    /\ request_urls = {}
    /\ pc = "idle"
    /\ attempt = 0
    /\ ret = NoReturn
    /\ requests = 0
    /\ sleeps = <<>>
    /\ last = NoOutcome
    /\ mixed = FALSE
    /\ succeeded = FALSE

runner_unchanged ==
    UNCHANGED <<cfg_provider, cloud_provider, cloud_adapter, max_retries, retry_delay, entry,
                timeout, worker_url, tvars, svars, fvars>>

\* The endpoint behaviours enumerated: all of them for a dispatch sequence on its
\* own, a few of each class for a sequence inside a scheduling tick.
TickOutcomes ==
    {Response(200, "json"), Response(204, "empty"), Response(404, "json"),
     Response(500, "text"), Raised("Timeout"), Raised("ConnectionError")}

EndpointOutcomes(e) == IF e = "execute_job" THEN TickOutcomes ELSE Outcomes

\* trigger_function up to its loop: line 158 evaluates self.cloud_provider.upper(),
\* which raises AttributeError when cloud_provider is None; then the loop is entered,
\* and "for attempt in range(1, max_retries + 1)" falls through to
\* "return False, None" when the range is empty.
trigger_function_enter ==
    /\ pc = "idle"
    /\ entry \in {"trigger_function", "execute_job"}
    /\ entry = "execute_job" => tpc = "executing"
    /\ IF cloud_provider = None
       THEN /\ ret' = RaisedError("AttributeError")
            /\ pc' = "done"
            /\ attempt' = attempt
       ELSE IF max_retries >= 1
       THEN /\ attempt' = 1
            /\ pc' = "attempting"
            /\ ret' = ret
       ELSE /\ ret' = Pair(FALSE, NoneData)
            /\ pc' = "done"
            /\ attempt' = attempt
    /\ region' = IF entry = "execute_job" THEN instructions.target_region ELSE region
    /\ UNCHANGED <<requests, sleeps, last, mixed, succeeded, request_timeouts, request_urls>>
    /\ runner_unchanged

\* One attempt: the exchange with the endpoint, its classification, and the
\* decision to return, or to sleep and retry.
trigger_function_attempt ==
    /\ pc = "attempting"
    /\ \E o \in EndpointOutcomes(entry) :
        LET r == attempt_result(cloud_adapter, o)
        IN  /\ requests' = requests + 1
            /\ request_timeouts' = request_timeouts \cup {request_timeout(cloud_adapter, timeout)}
            /\ request_urls' = request_urls \cup {request_url(cloud_adapter, worker_url, region)}
            /\ last' = o
            /\ mixed' = (mixed \/ (requests >= 1 /\ last # o))
            /\ succeeded' = (succeeded \/ r.success)
            /\ IF r.success
               THEN /\ ret' = Pair(TRUE, r.data)
                    /\ pc' = "done"
               ELSE IF returns_without_retry(cloud_adapter, o)
               THEN /\ ret' = Pair(FALSE, r.data)
                    /\ pc' = "done"
               ELSE IF retries_left(attempt, max_retries)
               THEN /\ ret' = ret
                    /\ pc' = "sleeping"
               ELSE /\ ret' = exhausted_return(r)
                    /\ pc' = "done"
    /\ UNCHANGED <<attempt, sleeps, region>>
    /\ runner_unchanged

\* time.sleep(self.retry_delay), then the next iteration of the loop.
trigger_function_sleep ==
    /\ pc = "sleeping"
    /\ sleeps' = Append(sleeps, sleep_seconds(retry_delay, attempt))
    /\ attempt' = attempt + 1
    /\ pc' = "attempting"
    /\ UNCHANGED <<ret, requests, last, mixed, succeeded, region, request_timeouts, request_urls>>
    /\ runner_unchanged

\* A direct call of handle_response on a response.
handle_response_call ==
    /\ pc = "idle"
    /\ entry = "handle_response"
    /\ \E o \in {x \in Outcomes : x.kind = "response"} :
        /\ ret' = handle_response(o)
        /\ last' = o
    /\ pc' = "done"
    /\ UNCHANGED <<attempt, requests, sleeps, mixed, succeeded, region, request_timeouts,
                   request_urls>>
    /\ runner_unchanged

(***************************************************************************)
(* The dispatch engine on its own: a JobRunner built from any enumerated   *)
(* configuration, then one call of trigger_function or of handle_response. *)
(***************************************************************************)
InitDispatch ==
    /\ entry \in {"trigger_function", "handle_response"}
    /\ TickIdle
    /\ SelectIdle
    /\ FetcherIdle
    /\ region \in DispatchRegions
    /\ worker_url \in WorkerUrls
    /\ \E cfg \in ProviderConfigs, maxr \in 0..MaxRetriesBound, delay \in 1..MaxDelayBound,
          tmo \in Timeouts :
        JobRunnerInit(cfg, maxr, delay, tmo)

NextDispatch ==
    \/ trigger_function_enter
    \/ trigger_function_attempt
    \/ trigger_function_sleep
    \/ handle_response_call

SpecDispatch == InitDispatch /\ [][NextDispatch]_vars

\* Steps 1-3 of run_scheduling_cycle: the decision, the instructions, and the call
\* of execute_job, which enters trigger_function.
cycle_decide ==
    /\ tpc = "start"
    /\ \E all_data \in AllReadings :
        LET d == make_decision(all_data)
        IN  IF d.kind = "raised"
            THEN /\ cycle_ret' = "False"
                 /\ tpc' = "cycle_done"
                 /\ UNCHANGED <<last_decision, instructions>>
            ELSE IF d.value = NoDecision
            THEN /\ cycle_ret' = "False"
                 /\ tpc' = "cycle_done"
                 /\ UNCHANGED <<last_decision, instructions>>
            ELSE /\ last_decision' = d.value
                 /\ instructions' = prepare_job_instructions(d.value)
                 /\ tpc' = "executing"
                 /\ cycle_ret' = cycle_ret
    /\ UNCHANGED <<connected, execution_result, log_ret, log_docs, log_calls, http_status>>
    /\ UNCHANGED <<dvars, svars, fvars>>

\* execute_job after trigger_function has ended: the result dict, or the exception
\* trigger_function raised, which run_scheduling_cycle catches ("return False").
cycle_executed ==
    /\ tpc = "executing"
    /\ pc = "done"
    /\ IF ret.kind = "raised"
       THEN /\ execution_result' = execution_result
            /\ cycle_ret' = "False"
            /\ tpc' = "cycle_done"
       ELSE /\ execution_result' = execute_job_result(instructions, ret)
            /\ cycle_ret' = cycle_ret
            /\ tpc' = "logging"
    /\ UNCHANGED <<connected, last_decision, instructions, log_ret, log_docs, log_calls, http_status>>
    /\ UNCHANGED <<dvars, svars, fvars>>

\* Step 5: firestore_logger.log_decision(decision, execution_result), then the
\* return of run_scheduling_cycle.
cycle_log ==
    /\ tpc = "logging"
    /\ \E add_ok \in BOOLEAN :
        /\ log_calls' = Append(log_calls, [decision |-> last_decision, result |-> execution_result])
        /\ IF connected /\ add_ok
           THEN /\ log_docs' = Append(log_docs,
                                 [selected_region |-> last_decision.selected_region,
                                  execution_success |-> execution_result.success])
                /\ log_ret' = "True"
           ELSE /\ log_docs' = log_docs
                /\ log_ret' = "False"
        /\ cycle_ret' = IF connected /\ log_decision_raises(add_ok) THEN "False"
                        ELSE cycle_return_after_log(execution_result)
    /\ tpc' = "cycle_done"
    /\ UNCHANGED <<connected, last_decision, instructions, execution_result, http_status>>
    /\ UNCHANGED <<dvars, svars, fvars>>

\* run_scheduler answers.
run_scheduler_respond ==
    /\ tpc = "cycle_done"
    /\ http_status' = response_status(cycle_ret, last_decision)
    /\ tpc' = "responded"
    /\ UNCHANGED <<connected, last_decision, instructions, execution_result,
                   log_ret, log_docs, log_calls, cycle_ret>>
    /\ UNCHANGED <<dvars, svars, fvars>>

(***************************************************************************)
(* One tick: run_scheduler has built its CarbonScheduler and is about to   *)
(* call run_scheduling_cycle.                                              *)
(***************************************************************************)
Init ==
    /\ entry = "execute_job"
    /\ \E cfg \in TickProviderConfigs :
        JobRunnerInit(cfg, SchedulerMaxRetries, SchedulerRetryDelay, SchedulerTimeout)
    /\ region = None
    /\ worker_url \in WorkerUrls
    /\ tpc = "start"
    /\ connected \in BOOLEAN
    /\ last_decision = NoDecision
    /\ instructions = NoInstructions
    /\ execution_result = NoResult
    /\ log_ret = None
    /\ log_docs = <<>>
    /\ log_calls = <<>>
    /\ cycle_ret = None
    /\ http_status = 0
    /\ SelectIdle
    /\ FetcherIdle

Next ==
    \/ cycle_decide
    \/ trigger_function_enter
    \/ trigger_function_attempt
    \/ trigger_function_sleep
    \/ cycle_executed
    \/ cycle_log
    \/ run_scheduler_respond

Spec == Init /\ [][Next]_vars

\* CarbonFetcher.get_greenest_region behind CarbonScheduler.make_decision.
select_make_decision ==
    /\ spc = "idle"
    /\ \E all_data \in AllReadings :
        LET d == make_decision(all_data)
        IN  /\ sel_data' = all_data
            /\ sel_result' =
                 IF d.kind = "raised"
                 THEN [NoSelection EXCEPT !.kind = "raised", !.error = "ZeroDivisionError"]
                 ELSE IF d.value = NoDecision
                 THEN [NoSelection EXCEPT !.error = "No valid carbon data available"]
                 ELSE [NoSelection EXCEPT !.success = TRUE,
                                          !.region = d.value.selected_region,
                                          !.carbon_intensity = d.value.carbon_intensity,
                                          !.savings_num = d.value.savings_gco2]
    /\ sel_entry' = "make_decision"
    /\ spc' = "done"
    /\ UNCHANGED <<sel_weights, sel_predicted, sel_objectives, sel_frontier,
                   sel_data_again, sel_frontier_again>>
    /\ UNCHANGED <<dvars, tvars, fvars>>

\* PredictiveScheduler.select_optimal_region
select_predictive ==
    /\ spc = "idle"
    /\ \E all_data \in SelectReadings, w \in WeightTriples \cup {DefaultWeights}, f \in Forecasts :
        /\ sel_data' = all_data
        /\ sel_weights' = w
        /\ sel_predicted' = f
        /\ sel_result' = predictive_select_optimal_region(all_data, w, f)
    /\ sel_entry' = "PredictiveScheduler.select_optimal_region"
    /\ spc' = "done"
    /\ UNCHANGED <<sel_objectives, sel_frontier,
                   sel_data_again, sel_frontier_again>>
    /\ UNCHANGED <<dvars, tvars, fvars>>

\* SimplePredictiveScheduler.select_optimal_region
select_simple ==
    /\ spc = "idle"
    /\ \E all_data \in SelectReadings, w \in WeightTriples \cup {DefaultWeights} :
        /\ sel_data' = all_data
        /\ sel_weights' = w
        /\ sel_result' = simple_select_optimal_region(all_data, w)
    /\ sel_entry' = "SimplePredictiveScheduler.select_optimal_region"
    /\ spc' = "done"
    /\ UNCHANGED <<sel_predicted, sel_objectives, sel_frontier,
                   sel_data_again, sel_frontier_again>>
    /\ UNCHANGED <<dvars, tvars, fvars>>

\* PredictiveScheduler.generate_pareto_frontier
pareto_predictive ==
    /\ spc = "idle"
    /\ \E all_data \in SelectReadings, objective1 \in Objectives, objective2 \in Objectives :
        /\ sel_data' = all_data
        /\ sel_objectives' = <<objective1, objective2>>
        /\ sel_frontier' = predictive_generate_pareto_frontier(all_data, objective1, objective2)
    /\ sel_entry' = "PredictiveScheduler.generate_pareto_frontier"
    /\ spc' = "done"
    /\ UNCHANGED <<sel_weights, sel_predicted, sel_result,
                   sel_data_again, sel_frontier_again>>
    /\ UNCHANGED <<dvars, tvars, fvars>>

\* SimplePredictiveScheduler.generate_pareto_frontier
pareto_simple ==
    /\ spc = "idle"
    /\ \E all_data \in SelectReadings, objective1 \in Objectives, objective2 \in Objectives :
        /\ sel_data' = all_data
        /\ sel_objectives' = <<objective1, objective2>>
        /\ sel_frontier' = simple_generate_pareto_frontier(all_data, objective1, objective2)
    /\ sel_entry' = "SimplePredictiveScheduler.generate_pareto_frontier"
    /\ spc' = "done"
    /\ UNCHANGED <<sel_weights, sel_predicted, sel_result,
                   sel_data_again, sel_frontier_again>>
    /\ UNCHANGED <<dvars, tvars, fvars>>

\* A second call of generate_pareto_frontier with the arguments of the first: its
\* first statement fetches the readings again.
pareto_predictive_again ==
    /\ spc = "done"
    /\ sel_entry = "PredictiveScheduler.generate_pareto_frontier"
    /\ \E all_data \in LaterReadings(sel_data) :
        /\ sel_data_again' = all_data
        /\ sel_frontier_again' =
              predictive_generate_pareto_frontier(all_data, sel_objectives[1], sel_objectives[2])
    /\ spc' = "repeated"
    /\ UNCHANGED <<sel_entry, sel_data, sel_weights, sel_predicted, sel_result,
                   sel_objectives, sel_frontier>>
    /\ UNCHANGED <<dvars, tvars, fvars>>

pareto_simple_again ==
    /\ spc = "done"
    /\ sel_entry = "SimplePredictiveScheduler.generate_pareto_frontier"
    /\ \E all_data \in LaterReadings(sel_data) :
        /\ sel_data_again' = all_data
        /\ sel_frontier_again' =
              simple_generate_pareto_frontier(all_data, sel_objectives[1], sel_objectives[2])
    /\ spc' = "repeated"
    /\ UNCHANGED <<sel_entry, sel_data, sel_weights, sel_predicted, sel_result,
                   sel_objectives, sel_frontier>>
    /\ UNCHANGED <<dvars, tvars, fvars>>

(***************************************************************************)
(* The selection entry points, each called once on enumerated inputs, and   *)
(* generate_pareto_frontier a second time.                                 *)
(***************************************************************************)
InitSelect ==
    /\ entry = None
    /\ JobRunnerInit(Missing, SchedulerMaxRetries, SchedulerRetryDelay, SchedulerTimeout)
    /\ region = None
    /\ worker_url = None
    /\ TickIdle
    /\ SelectIdle
    /\ FetcherIdle

NextSelect ==
    \/ select_make_decision
    \/ select_predictive
    \/ select_simple
    \/ pareto_predictive
    \/ pareto_simple
    \/ pareto_predictive_again
    \/ pareto_simple_again

SpecSelect == InitSelect /\ [][NextSelect]_vars

\* One call of fetch_carbon_intensity(zone, use_cache).
fetch_carbon_intensity_call ==
    /\ \E zone \in FetchZones, use_cache \in BOOLEAN, o \in ApiOutcomes :
        LET r == fetch_carbon_intensity(cache, zone, use_cache, now, cache_ttl, o)
        IN  /\ cache' = r.cache
            /\ f_ret' = IF r.error # None THEN [kind |-> "raised", value |-> FetchFailed]
                         ELSE [kind |-> "returned", value |-> r.ret]
            /\ f_api_calls' = r.api_calls
            /\ f_outcome' = IF r.api_calls = 0 THEN NoApiOutcome ELSE o
            /\ f_zone' = zone
            /\ f_use_cache' = use_cache
            /\ stored' = IF r.api_calls = 1 /\ o.kind = "response" /\ o.status = 200 /\ o.parses
                          THEN [stored EXCEPT ![zone] = Entry(o.data, now)]
                          ELSE stored
    /\ f_op' = "fetch_carbon_intensity"
    /\ f_time' = now
    /\ cache_before' = cache
    /\ UNCHANGED <<cache_ttl, now>>
    /\ UNCHANGED <<dvars, tvars, svars>>

\* One call of clear_cache().
clear_cache_call ==
    /\ cache' = clear_cache(cache)
    /\ stored' = [z \in FetchZones |-> NoEntry]
    /\ f_op' = "clear_cache"
    /\ cache_before' = cache
    /\ UNCHANGED <<cache_ttl, now, f_zone, f_use_cache, f_time, f_outcome, f_api_calls, f_ret>>
    /\ UNCHANGED <<dvars, tvars, svars>>

\* A second passes between two calls.
time_passes ==
    /\ now < MaxTime
    /\ now' = now + 1
    /\ UNCHANGED <<cache, cache_ttl, f_op, f_zone, f_use_cache, f_time, f_outcome,
                   f_api_calls, f_ret, cache_before, stored>>
    /\ UNCHANGED <<dvars, tvars, svars>>

(***************************************************************************)
(* The snapshot source on its own: a CarbonFetcher, then any sequence of   *)
(* fetches and cache clearings as time passes.                             *)
(***************************************************************************)
InitFetch ==
    /\ entry = None
    /\ JobRunnerInit(Missing, SchedulerMaxRetries, SchedulerRetryDelay, SchedulerTimeout)
    /\ region = None
    /\ worker_url = None
    /\ TickIdle
    /\ SelectIdle
    /\ \E ttl \in CacheTtls : FetcherInit(ttl)

NextFetch ==
    \/ fetch_carbon_intensity_call
    \/ clear_cache_call
    \/ time_passes

SpecFetch == InitFetch /\ [][NextFetch]_vars

(***************************************************************************)
(* Properties of the dispatch engine (checked under SpecDispatch).         *)
(***************************************************************************)

\* C1: with max_retries = N >= 1 and an endpoint that fails every time, a
\* trigger_function call, on the adapter path and on the direct-HTTP path alike,
\* ends having sent exactly N requests and slept exactly N-1 times, and returns
\* failure.
C1_ExhaustedAfterNAttempts ==
    (entry = "trigger_function" /\ pc = "done" /\ max_retries >= 1 /\ ~succeeded) =>
        /\ ret.kind = "returned"
        /\ ~ret.success
        /\ requests = max_retries
        /\ Len(sleeps) = max_retries - 1

\* C2: when requests 1..k-1 fail and request k succeeds (k <= max_retries), the
\* call ends there: k requests, k-1 sleeps, and it returns success with the data
\* of request k.
C2_SuccessOnAttemptK ==
    (entry = "trigger_function" /\ succeeded) =>
        /\ pc = "done"
        /\ attempt_result(cloud_adapter, last).success
        /\ requests = attempt
        /\ requests <= max_retries
        /\ Len(sleeps) = requests - 1
        /\ ret = Pair(TRUE, attempt_result(cloud_adapter, last).data)

C2_Witness ==
    /\ entry = "trigger_function"
    /\ pc = "done"
    /\ succeeded
    /\ requests = 3
    /\ Len(sleeps) = 2
    /\ mixed

C4_ExhaustedCarriesLastError ==
    (entry = "trigger_function" /\ pc = "done" /\ ~succeeded /\ requests >= 1
        /\ requests = max_retries) =>
        ret = Pair(FALSE, attempt_result(cloud_adapter, last).data)

C4_Witness ==
    /\ entry = "trigger_function"
    /\ pc = "done"
    /\ ~succeeded
    /\ requests = 3
    /\ mixed
    /\ last = Raised("ConnectionError")
    /\ ret.data.message = "ConnectionError"

\* C5: what follows a request depends only on whether it succeeded and on the
\* attempt number, never on the kind of failure: any failed request before the
\* last is followed by a sleep and a retry, the last one by the failure return.
C5_RetryIndependentOfCause ==
    (entry = "trigger_function" /\ requests >= 1 /\ pc # "attempting") =>
        IF attempt_result(cloud_adapter, last).success
        THEN pc = "done" /\ ret.success
        ELSE IF attempt < max_retries
        THEN pc = "sleeping"
        ELSE pc = "done" /\ ~ret.success /\ requests = max_retries

C5_Witness ==
    /\ entry = "trigger_function"
    /\ pc = "sleeping"
    /\ requests = 2
    /\ mixed
    /\ last = Response(404, "json")

\* C6: a request is classified a success exactly when the endpoint answered with
\* a 2xx status and a body that parses as JSON, by handle_response and by every
\* adapter alike.
C6_SuccessIffTwoXXJson ==
    ((entry = "trigger_function" /\ requests >= 1) \/ (entry = "handle_response" /\ pc = "done")) =>
        LET classified == IF entry = "handle_response" THEN ret.success
                          ELSE attempt_result(cloud_adapter, last).success
        IN  classified <=>
                (last.kind = "response" /\ last.status \in 200..299 /\ last.body = "json")

\* C11: no JobRunner exists whose configuration names an unrecognized provider:
\* construction with such a name fails, it does not fall back to another
\* transport.
C11_UnknownProviderRejectedAtConstruction ==
    LET given == IF cfg_provider = Missing THEN "gcp" ELSE cfg_provider
    IN  (given \notin {None, ""} /\ lower(given) # "none") =>
            get_cloud_adapter(given) # "ValueError"

\* C12: a JobRunner whose configuration names no provider (no entry, None or
\* 'none') holds no adapter, and its trigger_function sends its requests directly
\* and returns.
C12_NoProviderMeansDirectHttp ==
    (cfg_provider \in {Missing, None, "none", "NONE"}) =>
        /\ cloud_adapter = None
        /\ (entry = "trigger_function" /\ pc = "done" /\ max_retries >= 1) =>
              (ret.kind = "returned" /\ requests >= 1)

\* C19: a deployment through an adapter to a region outside the adapter's
\* get_regions() sends no request and is reported as failed.
C19_UnknownRegionSendsNothing ==
    (entry = "trigger_function" /\ cloud_adapter # None
        /\ region \notin get_regions(cloud_adapter)) =>
        /\ requests = 0
        /\ (pc = "done" /\ max_retries >= 1) => (ret.kind = "returned" /\ ~ret.success)

\* C20: every request of a dispatch sequence, through an adapter or direct, is
\* sent with the timeout configured on the JobRunner.
C20_RequestsUseRunnerTimeout ==
    \A t \in request_timeouts : t = timeout

\* C25: a dispatch sequence never makes more than max_retries attempts; once it
\* has returned (after a successful attempt, or after the max_retries-th failed
\* one) nothing more happens; and an attempt is followed only by the success
\* return, by a wait and another attempt, or by the exhausted return.
C25_BoundedRetryStateMachine ==
    [][/\ requests' <= max_retries'
       /\ attempt' <= max_retries'
       /\ pc = "done" =>
             UNCHANGED <<pc, attempt, ret, requests, sleeps>>
       /\ pc = "idle" /\ pc' # "idle" =>
             \/ pc' = "attempting" /\ attempt' = 1 /\ requests' = 0 /\ sleeps' = <<>>
             \/ pc' = "done" /\ requests' = 0 /\ sleeps' = <<>>
       /\ pc = "attempting" /\ pc' # "attempting" =>
             /\ requests' = requests + 1
             /\ sleeps' = sleeps
             /\ attempt' = attempt
             /\ \/ pc' = "done" /\ ret'.kind = "returned" /\ ret'.success
                   /\ attempt_result(cloud_adapter, last').success
                \/ pc' = "sleeping" /\ attempt < max_retries
                   /\ ~attempt_result(cloud_adapter, last').success
                \/ pc' = "done" /\ ret'.kind = "returned" /\ ~ret'.success
                   /\ attempt = max_retries
                   /\ ~attempt_result(cloud_adapter, last').success
       /\ pc = "sleeping" /\ pc' # "sleeping" =>
             /\ pc' = "attempting"
             /\ attempt' = attempt + 1
             /\ requests' = requests
             /\ Len(sleeps') = Len(sleeps) + 1
      ]_vars

C25_Witness ==
    /\ entry = "trigger_function"
    /\ max_retries = 2
    /\ pc = "done"
    /\ requests = 2
    /\ Len(sleeps) = 1
    /\ ~ret.success
    /\ last = Response(503, "text")

\* C27: trigger_function never raises: whatever the configuration and the
\* outcomes of the attempts it returns a (success, data) pair, and a failure with
\* max_retries >= 1 carries data that names the error.
C27_TriggerFunctionNeverRaises ==
    (entry = "trigger_function" /\ pc = "done") =>
        /\ ret.kind = "returned"
        /\ (~ret.success /\ max_retries >= 1) =>
              /\ ret.data # NoneData
              /\ ret.data.error # None \/ ret.data.message # None

(***************************************************************************)
(* Properties of one tick (checked under Spec).                            *)
(***************************************************************************)

\* C7, as the specification states it: when every request of a tick fails, execute_job reports
\* success = false with the last error, and neither run_scheduling_cycle nor
\* run_scheduler reports the tick as successful.
C7_ExhaustedNotReportedAsSuccess ==
    (tpc = "responded" /\ pc = "done" /\ ret.kind = "returned" /\ ~succeeded
        /\ requests = max_retries) =>
        /\ ~execution_result.success
        /\ execution_result.response = attempt_result(cloud_adapter, last).data
        /\ cycle_ret # "True"
        /\ http_status # 200

\* C7, as the code has it: when every request of a tick fails, execute_job reports
\* success = false with the last error attached and that result is handed to the
\* log, but run_scheduling_cycle still returns True and run_scheduler answers 200.
C7_ExhaustedSurfacedInResultOnly ==
    (pc = "done" /\ ret.kind = "returned" /\ ~succeeded /\ requests = max_retries) =>
        /\ tpc \in {"logging", "cycle_done", "responded"} =>
              /\ ~execution_result.success
              /\ execution_result.response = attempt_result(cloud_adapter, last).data
        /\ tpc \in {"cycle_done", "responded"} =>
              /\ cycle_ret = "True"
              /\ Len(log_calls) = 1
              /\ log_calls[1].result = execution_result
        /\ tpc = "responded" => http_status = 200

C7_Witness ==
    /\ tpc = "responded"
    /\ pc = "done"
    /\ ~succeeded
    /\ requests = 3
    /\ mixed
    /\ last = Raised("Timeout")
    /\ execution_result.response.message = "Timeout"
    /\ http_status = 200

\* C9: a tick whose decision step yields no decision sends no request, calls the
\* log not at all, has run_scheduling_cycle return False and run_scheduler answer
\* with a 5xx status; run_scheduler answers 200 only when the cycle returned True
\* and a decision exists.
C9_NoDecisionAbortsTick ==
    /\ (tpc \in {"cycle_done", "responded"} /\ last_decision = NoDecision) =>
          /\ pc = "idle"
          /\ requests = 0
          /\ log_calls = <<>>
          /\ log_docs = <<>>
          /\ cycle_ret = "False"
          /\ tpc = "responded" => http_status \in 500..599
    /\ http_status = 200 => (cycle_ret = "True" /\ last_decision # NoDecision)

C9_Witness ==
    /\ tpc = "responded"
    /\ last_decision = NoDecision
    /\ requests = 0
    /\ http_status = 500

\* C10: whether log_decision stores the document, is disconnected, or fails
\* inside, run_scheduling_cycle returns the same value and the execution result
\* is the one execute_job gave; nothing raised by the log reaches the cycle.
C10_LogFailureDoesNotChangeOutcome ==
    (tpc \in {"cycle_done", "responded"} /\ log_calls # <<>>) =>
        /\ Len(log_calls) = 1
        /\ cycle_ret = "True"
        /\ execution_result = execute_job_result(instructions, ret)
        /\ log_calls[1].result = execution_result
        /\ log_ret \in {"True", "False"}
        /\ log_ret = "True" <=> Len(log_docs) = 1

C10_Witness ==
    /\ tpc = "responded"
    /\ connected
    /\ log_ret = "False"
    /\ log_docs = <<>>
    /\ Len(log_calls) = 1
    /\ execution_result.success
    /\ http_status = 200

\* C21: the result execute_job produces for a dispatch sequence carries the
\* number of attempts performed, and one result is produced per sequence.
C21_ResultReportsAttempts ==
    (tpc \in {"logging", "cycle_done", "responded"} /\ ret.kind = "returned") =>
        /\ execution_result # NoResult
        /\ "attempts" \in execution_result.keys

\* C26: within one tick no request is sent before the decision exists; the log
\* is called at most once, only after the dispatch sequence has ended in success
\* or exhaustion, with that tick's decision and execution result; and every tick
\* that produced a decision has called the log exactly once when it ends.
C26_FetchDecideDispatchLog ==
    /\ (pc # "idle" \/ requests >= 1) =>
          /\ last_decision # NoDecision
          /\ instructions = prepare_job_instructions(last_decision)
    /\ Len(log_calls) <= 1
    /\ log_calls # <<>> =>
          /\ pc = "done"
          /\ ret.kind = "returned"
          /\ ret.success \/ requests = max_retries
          /\ log_calls[1].decision = last_decision
          /\ log_calls[1].result = execution_result
          /\ execution_result = execute_job_result(instructions, ret)
    /\ (tpc \in {"cycle_done", "responded"} /\ last_decision # NoDecision) =>
          Len(log_calls) = 1

\* C28: every request of a tick goes to the endpoint of the region the tick's
\* decision selected: the instructions name that region, all requests of the
\* sequence go to one URL, and a decision for any other region would not be
\* dispatched to that URL.
C28_DispatchedToSelectedRegion ==
    (requests >= 1) =>
        /\ instructions.target_region = last_decision.selected_region
        /\ region = last_decision.selected_region
        /\ request_urls = {request_url(cloud_adapter, worker_url, region)}
        /\ \A z \in RegionSet \ {region} :
              request_url(cloud_adapter, worker_url, z) \notin request_urls

(***************************************************************************)
(* Properties of the selection entry points (checked under SpecSelect).    *)
(***************************************************************************)

\* C8: when the snapshot fetch fails for every region, every selection entry
\* point returns a failure and no region; none decides from default values.
C8_NoDataNoDecision ==
    (spc = "done" /\ (\A z \in RegionSet : sel_data[z] = FetchFailed)
        /\ (sel_entry = "make_decision" \/ sel_weights[1] + sel_weights[2] + sel_weights[3] > 0)) =>
        /\ sel_result.kind = "returned"
        /\ ~sel_result.success
        /\ sel_result.region = None

\* C13: whenever at least one region has a valid reading, get_greenest_region
\* returns a region with a valid reading whose carbon intensity is least among
\* the valid ones, the first such region in dict order.
C13_GreenestIsFirstMinimum ==
    (spc = "done" /\ sel_entry = "make_decision" /\ valid_regions(sel_data) # {}) =>
        /\ sel_result.kind = "returned"
        /\ sel_result.success
        /\ sel_result.region \in valid_regions(sel_data)
        /\ sel_result.carbon_intensity = sel_data[sel_result.region].carbonIntensity
        /\ \A i, j \in 1..Len(Regions) :
              (Regions[i] = sel_result.region /\ Regions[j] \in valid_regions(sel_data)) =>
                  /\ sel_data[Regions[j]].carbonIntensity >= sel_result.carbon_intensity
                  /\ j < i => sel_data[Regions[j]].carbonIntensity > sel_result.carbon_intensity

\* C14: select_optimal_region, in both implementations, scores every candidate
\* and returns one of least score, the first of them in candidate order.
C14_OptimalIsFirstLeastScore ==
    (spc = "done" /\ sel_entry # "make_decision" /\ sel_result.kind = "returned"
        /\ sel_result.success) =>
        LET cands == sel_result.candidates
        IN  /\ Len(cands) = IF sel_entry = "PredictiveScheduler.select_optimal_region"
                            THEN Cardinality(valid_regions(sel_data))
                            ELSE Len(Regions)
            /\ \E i \in 1..Len(cands) :
                  /\ cands[i].region = sel_result.region
                  /\ cands[i].score = sel_result.score
                  /\ \A j \in 1..Len(cands) :
                        /\ cands[j].score >= cands[i].score
                        /\ j < i => cands[j].score > cands[i].score

C14_Witness ==
    /\ spc = "done"
    /\ sel_entry = "PredictiveScheduler.select_optimal_region"
    /\ sel_result.success
    /\ Len(sel_result.candidates) >= 3
    /\ sel_result.region # sel_result.candidates[1].region
    /\ \E j \in 1..Len(sel_result.candidates) :
          /\ sel_result.candidates[j].region # sel_result.region
          /\ sel_result.candidates[j].score = sel_result.score

\* C17: with weights {0, 0, 0} select_optimal_region, in both implementations,
\* fails and returns no selected region.
C17_ZeroWeightsRejected ==
    (spc = "done" /\ sel_weights = <<0, 0, 0>>
        /\ sel_entry \in {"PredictiveScheduler.select_optimal_region",
                          "SimplePredictiveScheduler.select_optimal_region"}) =>
        /\ sel_result.kind = "raised"
        /\ ~sel_result.success
        /\ sel_result.region = None

C18_SavingsAreMeanMinusSelected ==
    (spc = "done" /\ sel_result.kind = "returned" /\ sel_result.success) =>
        LET simple == sel_entry = "SimplePredictiveScheduler.select_optimal_region"
            keys == IF simple THEN RegionSet ELSE valid_regions(sel_data)
            carbon == [z \in RegionSet |->
                         [carbonIntensity |->
                             IF simple THEN fetch_carbon_data(sel_data)[z]
                             ELSE IF sel_predicted[z] # NoPrediction
                             THEN sel_predicted[z].carbonIntensity
                             ELSE sel_data[z].carbonIntensity]]
            n == Cardinality(keys)
            total == sum_over(carbon, Regions, keys)
        IN  sel_result.savings_num * n
                = (total - n * sel_result.carbon_intensity) * sel_result.savings_den

\* C18, as the code has it: select_optimal_region records exactly the mean minus
\* the selected intensity, negative when the selected region is above the mean;
\* get_greenest_region records that difference rounded to the nearest integer
\* (halves to the even one).
C18_SavingsRawOrRounded ==
    (spc = "done" /\ sel_result.kind = "returned" /\ sel_result.success) =>
        LET simple == sel_entry = "SimplePredictiveScheduler.select_optimal_region"
            keys == IF simple THEN RegionSet ELSE valid_regions(sel_data)
            carbon == [z \in RegionSet |->
                         [carbonIntensity |->
                             IF simple THEN fetch_carbon_data(sel_data)[z]
                             ELSE IF sel_predicted[z] # NoPrediction
                             THEN sel_predicted[z].carbonIntensity
                             ELSE sel_data[z].carbonIntensity]]
            n == Cardinality(keys)
            diff == sum_over(carbon, Regions, keys) - n * sel_result.carbon_intensity
            s == sel_result.savings_num
            gap == IF n * s >= diff THEN n * s - diff ELSE diff - n * s
        IN  IF sel_entry = "make_decision"
            THEN /\ sel_result.savings_den = 1
                 /\ 2 * gap <= n
                 /\ 2 * gap = n => s % 2 = 0
            ELSE /\ sel_result.savings_den = n
                 /\ s = diff

C18_Witness ==
    /\ spc = "done"
    /\ sel_entry = "PredictiveScheduler.select_optimal_region"
    /\ sel_result.success
    /\ sel_result.savings_num < 0
    /\ sel_result.carbon_intensity = 40

\* C15: the list generate_pareto_frontier returns, for any two objectives, holds
\* no candidate that another candidate dominates, and every candidate it leaves
\* out is dominated by one it holds; j dominates i iff j is no worse on both
\* objectives and strictly better on one.
C15_ParetoFrontierIsTheNonDominatedSet ==
    (spc = "done" /\ sel_entry \in {"PredictiveScheduler.generate_pareto_frontier",
                                     "SimplePredictiveScheduler.generate_pareto_frontier"}) =>
        LET simple == sel_entry = "SimplePredictiveScheduler.generate_pareto_frontier"
            cands == IF simple THEN RegionSet ELSE valid_regions(sel_data)
            value(z, o) == CASE o = "latency" -> REGION_LATENCY[z]
                             [] o = "cost" -> REGION_COSTS[z]
                             [] OTHER -> IF simple THEN fetch_carbon_data(sel_data)[z]
                                         ELSE sel_data[z].carbonIntensity
            o1 == sel_objectives[1]
            o2 == sel_objectives[2]
            dom(j, i) == /\ value(j, o1) <= value(i, o1)
                         /\ value(j, o2) <= value(i, o2)
                         /\ (value(j, o1) < value(i, o1) \/ value(j, o2) < value(i, o2))
            front == {sel_frontier[n].region : n \in 1..Len(sel_frontier)}
        IN  /\ front \subseteq cands
            /\ Cardinality(front) = Len(sel_frontier)
            /\ \A i \in front : ~\E j \in cands : dom(j, i)
            /\ \A i \in cands \ front : \E j \in front : dom(j, i)

C15_Witness ==
    /\ spc = "done"
    /\ sel_entry = "PredictiveScheduler.generate_pareto_frontier"
    /\ sel_objectives = <<"carbon", "latency">>
    /\ Len(sel_frontier) = 2
    /\ Cardinality(valid_regions(sel_data)) = 6
    /\ sel_frontier[1].carbon < sel_frontier[2].carbon
    /\ sel_frontier[1].latency > sel_frontier[2].latency

\* C29: for every non-empty set of valid readings, the one where every intensity
\* is 0 included, get_greenest_region and make_decision return a decision and
\* raise nothing.
C29_DecisionTotalOnNonEmptyData ==
    (spc = "done" /\ sel_entry = "make_decision" /\ valid_regions(sel_data) # {}) =>
        /\ sel_result.kind = "returned"
        /\ sel_result.success
        /\ sel_result.region # None

\* C30: in every decision get_greenest_region returns, the selected intensity is
\* at most the mean over the valid readings, the savings are not negative, and
\* totalRegions is the number of valid readings.
C30_SavingsNeverNegative ==
    (spc = "done" /\ sel_entry = "make_decision" /\ sel_result.kind = "returned"
        /\ sel_result.success) =>
        LET g == get_greenest_region(sel_data).value
            valid == valid_regions(sel_data)
            n == Cardinality(valid)
            total == sum_over(sel_data, Regions, valid)
        IN  /\ g.zone = sel_result.region
            /\ g.carbonIntensity = sel_result.carbon_intensity
            /\ g.savings = sel_result.savings_num
            /\ n * g.carbonIntensity <= total
            /\ g.savings >= 0
            /\ g.totalRegions = n
            /\ n >= 1

C30_Witness ==
    /\ spc = "done"
    /\ sel_entry = "make_decision"
    /\ sel_result.success
    /\ Cardinality(valid_regions(sel_data)) = 4
    /\ sel_result.carbon_intensity = 0
    /\ sel_result.savings_num = 30
    /\ \E z \in RegionSet : sel_data[z] = NoKey

\* C24: two calls of generate_pareto_frontier with identical arguments return
\* identical lists, whatever happened between the calls.
C24_RepeatedCallsAgree ==
    spc = "repeated" => sel_frontier_again = sel_frontier

(***************************************************************************)
(* Properties of the snapshot fetch (checked under SpecFetch).             *)
(***************************************************************************)

\* C22: the cache holds exactly the readings of the successful API fetches
\* (whatever use_cache was), and a fetch with use_cache=True returns the stored
\* reading without contacting the API iff one was stored for the zone less than
\* cache_ttl seconds earlier; every other fetch contacts the API.
C22_CacheServesFreshEntriesOnly ==
    /\ cache = stored
    /\ f_op = "fetch_carbon_intensity" =>
          LET before == cache_before[f_zone]
              fresh == before.present /\ f_time - before.timestamp < cache_ttl
          IN  /\ f_api_calls = 0 <=> (f_use_cache /\ fresh)
              /\ f_api_calls = 0 => f_ret = [kind |-> "returned", value |-> before.data]
              /\ f_api_calls # 0 => f_api_calls = 1
              /\ (f_api_calls = 1 /\ f_outcome.kind = "response" /\ f_outcome.status = 200
                    /\ f_outcome.parses) =>
                    /\ cache[f_zone] = Entry(f_outcome.data, f_time)
                    /\ f_ret = [kind |-> "returned", value |-> f_outcome.data]

C22_Witness ==
    /\ f_op = "fetch_carbon_intensity"
    /\ cache_ttl = 2
    /\ f_use_cache
    /\ f_api_calls = 1
    /\ cache_before[f_zone].present
    /\ f_time - cache_before[f_zone].timestamp = 2
    /\ cache[f_zone] = Entry(Reading(40), f_time)
    /\ cache_before[f_zone].data = Reading(0)

====
